---------------------------- MODULE Spec2Model ----------------------------
(***************************************************************************)
(* Model of the fraud detection backend (src/python-backend).              *)
(*                                                                         *)
(*   feature_extractor.py  FeatureExtractor: per-user / per-merchant /     *)
(*                         per-IP histories and the feature map            *)
(*   pretrained_detector.py PretrainedFraudDetector.predict/get_risk_level *)
(*   ai_reasoner.py        AIReasoner.explain_fraud                        *)
(*   main.py               the Redis subscribe loop, POST /predict,        *)
(*                         GET /recent and the lifespan shutdown           *)
(*                                                                         *)
(* Numbers.  Amounts are whole dollars.  Probabilities are in thousandths  *)
(* (0.35 is 350).  A mean or a ratio is kept as an exact fraction          *)
(* <<numerator, denominator>> and compared by cross multiplication, so no  *)
(* rounding enters the model.  Timestamps are seconds since a Monday       *)
(* 00:00.                                                                  *)
(***************************************************************************)
EXTENDS Integers, Sequences, FiniteSets, TLC

-----------------------------------------------------------------------------
(* Bounds of the model *)

\* Events in one run: messages put on the "transactions" channel plus
\* POST /predict requests.
MaxEvents == 3

\* Injected failures (a database save or a publish that raises) in one run.
MaxFaults == 1

\* Calls of extract_features in one run of the extractor on its own.
MaxCalls == 3

\* settings.feature_window, the window the service constructs its
\* FeatureExtractor with (100 in config.py; scaled down so that trimming
\* happens within a run).
feature_window == 1

\* main.py MAX_RECENT_RESULTS is 500; scaled down so that the ring fills and
\* evicts within a run.
MAX_RECENT_RESULTS == 2

-----------------------------------------------------------------------------
(* Program constants *)

SECONDS_PER_HOUR == 3600
SECONDS_PER_DAY == 86400
FIRST_TXN_HOURS == 24
WEEKEND_FROM == 5
fraud_threshold == 350
DEFAULT_USER_AVG == 100
R1_MIN_AMOUNT == 400
R2_MIN_AMOUNT == 700
R3_MIN_VELOCITY == 5
R2_PROB == 850
R3_PROB == 750
BOOST_MIN_AMOUNT == 500
BOOST == 300
R1_BASE_CAP == 800
R1_VELOCITY_CAP == 300
RISK_MEDIUM_FROM == 300
RISK_HIGH_FROM == 600
RISK_CRITICAL_FROM == 850

None == "None"

Users == {"u1", "u2"}
Merchants == {"m1"}
IPs == {"ip1"}

-----------------------------------------------------------------------------
(* Sequence helpers *)

Min(a, b) == IF a <= b THEN a ELSE b

Max(a, b) == IF a >= b THEN a ELSE b

\* Python s[-n:] for n > 0: the last n elements, all of s when it is shorter.
LastN(s, n) == IF Len(s) <= n THEN s ELSE SubSeq(s, Len(s) - n + 1, Len(s))

RECURSIVE SumAmounts(_)
SumAmounts(s) == IF s = << >> THEN 0 ELSE s[1].amount + SumAmounts(Tail(s))

RECURSIVE SumSquares(_)
SumSquares(s) == IF s = << >> THEN 0 ELSE s[1].amount * s[1].amount + SumSquares(Tail(s))

RECURSIVE MaxAmount(_)
MaxAmount(s) == IF Len(s) = 1 THEN s[1].amount ELSE Max(s[1].amount, MaxAmount(Tail(s)))

RECURSIVE MinAmount(_)
MinAmount(s) == IF Len(s) = 1 THEN s[1].amount ELSE Min(s[1].amount, MinAmount(Tail(s)))

\* len([t for t in txns if (now - t.timestamp).total_seconds() < limit])
CountWithin(txns, now, limit) ==
    Cardinality({i \in 1..Len(txns) : now - txns[i].timestamp < limit})

\* np.mean(amounts) as an exact fraction.
Mean(s) == <<SumAmounts(s), Len(s)>>

\* np.std(amounts) if len(amounts) > 1 else 0.0, kept as the exact fraction
\* of its square: var = (n * sum(x^2) - sum(x)^2) / n^2.
StdSquared(s) ==
    IF Len(s) > 1
    THEN <<Len(s) * SumSquares(s) - SumAmounts(s) * SumAmounts(s), Len(s) * Len(s)>>
    ELSE <<0, 1>>

-----------------------------------------------------------------------------
(* State *)

VARIABLES
    window_size,           \* FeatureExtractor.window_size
    user_history,          \* FeatureExtractor.user_history
    merchant_history,      \* FeatureExtractor.merchant_history
    ip_history,            \* FeatureExtractor.ip_history
    calls,                 \* every transaction passed to extract_features, in call order
    features_out,          \* the feature map the latest extract_features call returned
    channel,               \* messages on "transactions" not yet delivered to the loop
    ingested,              \* every message put on "transactions", in arrival order
    pc,                    \* where process_transactions_from_redis stands
    cur,                   \* the loop's locals for the message it is handling
    stats,                 \* main.py stats
    recent_fraud_results,  \* main.py recent_fraud_results (the Recent Ring)
    ring_log,              \* ids of the results appended to the ring, in order
    db,                    \* rows committed to the transactions table
    save_failed,           \* ids whose database save raised
    publish_failed,        \* ids whose publish on fraud_results raised
    fraud_results,         \* messages published on "fraud_results", in order
    predict_pc,            \* where the POST /predict handler stands
    predict_cur,           \* the handler's locals
    predicts,              \* number of POST /predict requests so far
    faults,                \* number of injected failures so far
    response,              \* the latest GET /recent response (in-memory path)
    model_loaded,          \* PretrainedFraudDetector.model is not None
    explained,             \* ids of the stream events explain_fraud was called for
    fraud_explanations,    \* messages published on "fraud_explanations", in order
    explain_out,           \* the latest explain_fraud call made on its own, and its outcome
    score_out              \* the latest scoring made on its own: the vector and its result

extractorVars == <<user_history, merchant_history, ip_history, calls, features_out>>

streamVars == <<channel, ingested, pc, cur, recent_fraud_results, ring_log, db,
                save_failed, publish_failed, explained>>

predictVars == <<predict_pc, predict_cur, predicts>>

\* What only start-up, the /predict background task and a lone explain_fraud
\* or scoring call set.
auxVars == <<window_size, model_loaded, fraud_explanations, explain_out, score_out>>

vars == <<extractorVars, streamVars, predictVars, stats, fraud_results, response, faults,
          auxVars>>

-----------------------------------------------------------------------------
(* feature_extractor.py *)

\* type_encoding.get(transaction.transaction_type, 0.0)
type_encoding(t) ==
    CASE t = "payment" -> 1
      [] t = "transfer" -> 2
      [] t = "withdrawal" -> 3
      [] t = "deposit" -> 4
      [] t = "refund" -> 5
      [] OTHER -> 0

\* The read at line 39 happens after T was appended (an append-then-read slip).
user_txns_after_append(uh, txn) == Append(uh[txn.user_id], txn)

\* user_txns = self.user_history[transaction.user_id], read before the update.
user_txns_of(uh, txn) == uh[txn.user_id]

merchant_txns_of(mh, txn) == mh[txn.merchant_id]

ip_txns_of(ih, txn) == ih[txn.ip_address]

\* The user-based features (lines 38-73).
UserFeatures(txn, user_txns) ==
    IF user_txns # << >>
    THEN LET amounts == LastN(user_txns, window_size)
             avg == Mean(amounts)
         IN  [user_avg_amount |-> avg,
              user_std_amount |-> StdSquared(amounts),
              user_max_amount |-> MaxAmount(amounts),
              user_min_amount |-> MinAmount(amounts),
              \* amount / (avg + 1e-6); the guard matters only for avg = 0
              amount_vs_avg |-> <<txn.amount * avg[2], avg[1]>>,
              txns_last_hour |-> CountWithin(user_txns, txn.timestamp, SECONDS_PER_HOUR),
              txns_last_day |-> CountWithin(user_txns, txn.timestamp, SECONDS_PER_DAY),
              time_since_last_txn |->
                  <<txn.timestamp - user_txns[Len(user_txns)].timestamp, SECONDS_PER_HOUR>>]
    ELSE [user_avg_amount |-> <<txn.amount, 1>>,
          user_std_amount |-> <<0, 1>>,
          user_max_amount |-> txn.amount,
          user_min_amount |-> txn.amount,
          amount_vs_avg |-> <<1, 1>>,
          txns_last_hour |-> 0,
          txns_last_day |-> 0,
          time_since_last_txn |-> <<FIRST_TXN_HOURS, 1>>,
          is_first_transaction |-> 1]

\* The merchant-based features (lines 75-87).
MerchantFeatures(txn, mh) ==
    IF txn.merchant_id # None
    THEN LET merchant_txns == merchant_txns_of(mh, txn)
         IN  IF merchant_txns # << >>
             THEN LET amounts == LastN(merchant_txns, window_size)
                  IN  [merchant_avg_amount |-> Mean(amounts),
                       merchant_std_amount |-> StdSquared(amounts)]
             ELSE [merchant_avg_amount |-> <<txn.amount, 1>>,
                   merchant_std_amount |-> <<0, 1>>]
    ELSE [merchant_avg_amount |-> <<0, 1>>, merchant_std_amount |-> <<0, 1>>]

\* The IP-based features (lines 89-101).
IpFeatures(txn, ih) ==
    IF txn.ip_address # None
    THEN LET ip_txns == ip_txns_of(ih, txn)
             unique_users == Cardinality({ip_txns[i].user_id : i \in 1..Len(ip_txns)})
         IN  [ip_txn_count |-> Len(ip_txns),
              ip_unique_users |-> unique_users,
              ip_user_ratio |-> <<unique_users, Len(ip_txns) + 1>>]
    ELSE [ip_txn_count |-> 0, ip_unique_users |-> 0, ip_user_ratio |-> <<0, 1>>]

\* The basic features (lines 22-36).
BasicFeatures(txn) ==
    LET weekday == (txn.timestamp \div SECONDS_PER_DAY) % 7
    IN  [amount |-> txn.amount,
         hour_of_day |-> (txn.timestamp \div SECONDS_PER_HOUR) % 24,
         day_of_week |-> weekday,
         is_weekend |-> IF weekday >= WEEKEND_FROM THEN 1 ELSE 0,
         transaction_type |-> type_encoding(txn.transaction_type)]

\* The feature map extract_features returns for txn, read from the three
\* histories as they are when it is called.
ComputeFeatures(txn, uh, mh, ih) ==
    BasicFeatures(txn) @@ UserFeatures(txn, user_txns_of(uh, txn))
        @@ MerchantFeatures(txn, mh) @@ IpFeatures(txn, ih)

\* The append with the trim left out.
UpdateUserHistoryUntrimmed(uh, txn) ==
    [uh EXCEPT ![txn.user_id] = Append(@, txn)]

\* "Update history" and "Trim history to window size" (lines 103-112): the
\* user list is appended to and cut to its last window_size entries.
UpdateUserHistory(uh, txn) ==
    [uh EXCEPT ![txn.user_id] = LastN(Append(@, txn), window_size)]

\* Lines 105-106: the merchant list is appended to; it is not trimmed.
UpdateMerchantHistory(mh, txn) ==
    IF txn.merchant_id # None
    THEN [mh EXCEPT ![txn.merchant_id] = Append(@, txn)]
    ELSE mh

\* Lines 107-108: the IP list is appended to; it is not trimmed.
UpdateIpHistory(ih, txn) ==
    IF txn.ip_address # None
    THEN [ih EXCEPT ![txn.ip_address] = Append(@, txn)]
    ELSE ih

\* FeatureExtractor.extract_features(transaction): no await inside, so one step.
extract_features(txn) ==
    /\ features_out' = ComputeFeatures(txn, user_history, merchant_history, ip_history)
    /\ user_history' = UpdateUserHistory(user_history, txn)
    /\ merchant_history' = UpdateMerchantHistory(merchant_history, txn)
    /\ ip_history' = UpdateIpHistory(ip_history, txn)
    /\ calls' = Append(calls, txn)

\* get_feature_names(): the 18 names features_to_array reads, in order.
get_feature_names ==
    <<"amount", "hour_of_day", "day_of_week", "is_weekend",
      "transaction_type", "user_avg_amount", "user_std_amount",
      "user_max_amount", "user_min_amount", "amount_vs_avg",
      "txns_last_hour", "txns_last_day", "time_since_last_txn",
      "merchant_avg_amount", "merchant_std_amount",
      "ip_txn_count", "ip_unique_users", "ip_user_ratio">>

\* features_to_array(features): the values in get_feature_names order,
\* features.get(name, 0.0) for a missing name.
features_to_array(features) ==
    [i \in 1..Len(get_feature_names) |->
        IF get_feature_names[i] \in DOMAIN features
        THEN features[get_feature_names[i]]
        ELSE 0]

-----------------------------------------------------------------------------
(* pretrained_detector.py *)

\* What self.model.predict_proba can return for a vector: the fitted weights
\* are not part of the source, so the output is any of these probabilities.
LogisticOutputs == {100, 350}

Str(s) == <<"str", s>>

Num(n) == <<"num", n>>

\* A call that ends in a Python exception.
Raised == [outcome |-> "raised"]

\* Whether x is a number (an element of a 1-D array) and not a row of values.
IsScalar(x) == x \in Int

\* _fallback_predict(features), lines 177-203.  f = features[0]; amount = f[0]:
\* predict hands it the 1-D array of features_to_array, so f is a number and
\* f[0] raises IndexError.  Given a 2-D array it would score the row f.
fallback_predict(features) ==
    LET f == features[1]
    IN  IF IsScalar(f)
        THEN Raised
        ELSE LET amount == f[1]
                 amount_vs_avg == IF Len(f) > 9 THEN f[10] ELSE <<1, 1>>
                 txns_last_hour == IF Len(f) > 10 THEN f[11] ELSE 0
                 risk == (IF amount > R1_MIN_AMOUNT THEN 400 ELSE 0)
                           + (IF amount > R2_MIN_AMOUNT THEN 300 ELSE 0)
                           + (IF amount_vs_avg[1] > 3 * amount_vs_avg[2] THEN 200 ELSE 0)
                           + (IF txns_last_hour > 3 THEN 100 ELSE 0)
             IN  [outcome |-> "ok",
                  prob |-> Min(risk, 1000),
                  importance |-> [amount |-> Num(amount),
                                  amount_vs_avg |-> Num(amount_vs_avg),
                                  txns_last_hour |-> Num(txns_last_hour)]]

\* user_avg = features[5] if features[5] > 0 else 100 (line 116).
UserAvg(avg) == IF avg[1] > 0 THEN avg ELSE <<DEFAULT_USER_AVG, 1>>

\* Rule 2 tried before rule 1.
BranchVeryHighFirst(amount, user_avg, txns_last_hour) ==
    IF amount > R2_MIN_AMOUNT THEN "R2"
    ELSE IF /\ user_avg[1] > 0
            /\ 10 * amount * user_avg[2] > 9 * user_avg[1]
            /\ amount > R1_MIN_AMOUNT
    THEN "R1"
    ELSE IF txns_last_hour >= R3_MIN_VELOCITY THEN "R3"
    ELSE "logistic"

\* Rule 3 with a strict comparison.
BranchStrictVelocity(amount, user_avg, txns_last_hour) ==
    IF /\ user_avg[1] > 0
       /\ 10 * amount * user_avg[2] > 9 * user_avg[1]
       /\ amount > R1_MIN_AMOUNT
    THEN "R1"
    ELSE IF amount > R2_MIN_AMOUNT THEN "R2"
    ELSE IF txns_last_hour > R3_MIN_VELOCITY THEN "R3"
    ELSE "logistic"

\* Rule 1 without its floor on the amount.
BranchAnyAmount(amount, user_avg, txns_last_hour) ==
    IF /\ user_avg[1] > 0
       /\ 10 * amount * user_avg[2] > 9 * user_avg[1]
    THEN "R1"
    ELSE IF amount > R2_MIN_AMOUNT THEN "R2"
    ELSE IF txns_last_hour >= R3_MIN_VELOCITY THEN "R3"
    ELSE "logistic"

\* The branch of predict that scores the vector (lines 127, 142, 151, 160):
\* the first of rule 1, rule 2, rule 3 whose condition holds, else the
\* logistic model.  amount > user_avg * 0.9 is compared on exact fractions.
Branch(amount, user_avg, txns_last_hour) ==
    IF /\ user_avg[1] > 0
       /\ 10 * amount * user_avg[2] > 9 * user_avg[1]
       /\ amount > R1_MIN_AMOUNT
    THEN "R1"
    ELSE IF amount > R2_MIN_AMOUNT THEN "R2"
    ELSE IF txns_last_hour >= R3_MIN_VELOCITY THEN "R3"
    ELSE "logistic"

\* Rule 1 with the velocity part not capped.
R1ProbabilityUncapped(amount, txns_last_hour) ==
    Min(Min(amount, R1_BASE_CAP) + txns_last_hour * 100, 1000)

\* Lines 129-131: base_risk = min(amount / 1000, 0.8), velocity_risk =
\* min(txns_last_hour * 0.1, 0.3), fraud_prob = min(base + velocity, 1.0).
R1Probability(amount, txns_last_hour) ==
    Min(Min(amount, R1_BASE_CAP) + Min(txns_last_hour * 100, R1_VELOCITY_CAP), 1000)

\* The boost with the clamp left out.
BoostedUnclamped(amount, ml) ==
    IF amount > BOOST_MIN_AMOUNT THEN ml + BOOST ELSE ml

\* Lines 164-165: if amount > 500, ml_fraud_prob = min(ml_fraud_prob + 0.3, 1.0).
Boosted(amount, ml) ==
    IF amount > BOOST_MIN_AMOUNT THEN Min(ml + BOOST, 1000) ELSE ml

\* Lines 115-175 of predict, with self.model loaded; ml is what predict_proba
\* returns for this vector.  features is the array, 1-based: features[0] is
\* arr[1], features[5] is arr[6], features[9] is arr[10], features[10] is
\* arr[11].
hybrid_predict(arr, ml) ==
    LET amount == arr[1]
        txns_last_hour == arr[11]
        amount_vs_avg == arr[10]
        branch == Branch(amount, UserAvg(arr[6]), txns_last_hour)
    IN  IF branch = "R1"
        THEN [prob |-> R1Probability(amount, txns_last_hour),
              importance |-> [model |-> Str("rule_based_hybrid"),
                              reason |-> Str("high_value_low_history"),
                              amount |-> Num(amount),
                              base_risk |-> Num(Min(amount, R1_BASE_CAP)),
                              velocity_risk |-> Num(Min(txns_last_hour * 100, R1_VELOCITY_CAP))]]
        ELSE IF branch = "R2"
        THEN [prob |-> R2_PROB,
              importance |-> [model |-> Str("rule_based_hybrid"),
                              reason |-> Str("very_high_amount"),
                              amount |-> Num(amount)]]
        ELSE IF branch = "R3"
        THEN [prob |-> R3_PROB,
              importance |-> [model |-> Str("rule_based_hybrid"),
                              reason |-> Str("velocity_attack"),
                              velocity |-> Num(txns_last_hour)]]
        ELSE [prob |-> Boosted(amount, ml),
              importance |-> [model |-> Str("pretrained_lr"),
                              ml_prob |-> Num(Boosted(amount, ml)),
                              amount |-> Num(amount),
                              amount_vs_avg |-> Num(amount_vs_avg)]]

\* PretrainedFraudDetector.predict(features): the fallback when self.model is
\* None (lines 111-113), the hybrid of rules and logistic model otherwise.
predict(arr, ml, loaded) ==
    IF ~loaded
    THEN fallback_predict(arr)
    ELSE [outcome |-> "ok"] @@ hybrid_predict(arr, ml)

\* The bands with each boundary put in the lower band.
get_risk_level_open(p) ==
    IF p <= RISK_MEDIUM_FROM THEN "low"
    ELSE IF p <= RISK_HIGH_FROM THEN "medium"
    ELSE IF p <= RISK_CRITICAL_FROM THEN "high"
    ELSE "critical"

\* get_risk_level(probability)
get_risk_level(p) ==
    IF p < RISK_MEDIUM_FROM THEN "low"
    ELSE IF p < RISK_HIGH_FROM THEN "medium"
    ELSE IF p < RISK_CRITICAL_FROM THEN "high"
    ELSE "critical"

-----------------------------------------------------------------------------
(* config.py and ai_reasoner.py *)

enable_ai_reasoning == TRUE

ai_reasoning_mode == "demo"

model_type == "xgboost"

\* sorted(feature_importance.items(), key=lambda x: x[1], reverse=True):
\* Python orders str with str and number with number; comparing a str with a
\* number raises TypeError, which any sort of a map holding both runs into.
SortRaises(importance) ==
    \E a, b \in DOMAIN importance : importance[a][1] # importance[b][1]

\* f"{v:.3f}" for the importance values: a str value raises ValueError.
FormatRaises(importance) ==
    \E k \in DOMAIN importance : importance[k][1] = "str"

\* The template explanation map of _demo_explanation and
\* _rule_based_explanation: the keys main.py reads from it.
Explanation(risk_level, importance) ==
    [explanation |-> <<"narrative", risk_level>>,
     risk_factors |-> DOMAIN importance,
     recommendations |-> <<"recommendations", risk_level>>]

\* The explanation map built from the remote model's reply (lines 146-158).
RemoteExplanation(risk_level, importance) ==
    [explanation |-> <<"reply">>,
     risk_factors |-> DOMAIN importance,
     recommendations |-> <<"recommendations", risk_level>>]

\* How the POST to ollama_url can end: status 200 with a JSON body, another
\* status, a timeout, a dropped connection, a 200 whose body does not decode.
RemoteReplies == {"ok", "non_200", "timeout", "disconnect", "decode_error"}

\* The reply slot of a call that makes no remote request.
NoCall == "no_call"

\* _demo_explanation (lines 53-114); attempts counts the remote requests made
\* before it.
demo_explanation(risk_level, importance, attempts) ==
    IF FormatRaises(importance)
    THEN [outcome |-> "raised", attempts |-> attempts]
    ELSE [outcome |-> "ok", attempts |-> attempts,
          value |-> Explanation(risk_level, importance)]

\* _rule_based_explanation (lines 203-244).
rule_based_explanation(risk_level, importance) ==
    IF FormatRaises(importance)
    THEN [outcome |-> "raised", attempts |-> 0]
    ELSE [outcome |-> "ok", attempts |-> 0,
          value |-> Explanation(risk_level, importance)]

\* A remote failure that is not caught: it leaves _ollama_explanation as an
\* exception.
ollama_explanation_propagating(risk_level, importance, remote) ==
    IF FormatRaises(importance)
    THEN [outcome |-> "raised", attempts |-> 0]
    ELSE IF remote = "ok"
    THEN [outcome |-> "ok", attempts |-> 1,
          value |-> RemoteExplanation(risk_level, importance)]
    ELSE [outcome |-> "raised", attempts |-> 1]

\* _ollama_explanation (lines 116-171).  The prompt is built before the try
\* (line 127) and formats the importance values; the request is made once; a
\* status other than 200 and any exception end in _demo_explanation.
ollama_explanation(risk_level, importance, remote) ==
    IF FormatRaises(importance)
    THEN [outcome |-> "raised", attempts |-> 0]
    ELSE IF remote = "ok"
    THEN [outcome |-> "ok", attempts |-> 1,
          value |-> RemoteExplanation(risk_level, importance)]
    ELSE demo_explanation(risk_level, importance, 1)

\* AIReasoner.explain_fraud(...): None when reasoning is off, an exception
\* when the sort raises, else the explanation of the selected mode.
explain_fraud(mode, risk_level, importance, remote) ==
    IF ~enable_ai_reasoning THEN [outcome |-> "none", attempts |-> 0]
    ELSE IF SortRaises(importance) THEN [outcome |-> "raised", attempts |-> 0]
    ELSE IF mode = "demo" THEN demo_explanation(risk_level, importance, 0)
    ELSE IF mode = "ollama" THEN ollama_explanation(risk_level, importance, remote)
    ELSE rule_based_explanation(risk_level, importance)

-----------------------------------------------------------------------------
(* main.py: process_transactions_from_redis *)

Malformed == [malformed |-> TRUE]

StreamAmounts == {60, 800}

\* Seconds between two events of a run.
TICK == 1000

\* The events of the run so far, and the clock reading of the next one.
Events == Len(ingested) + predicts

Now == (Events + 1) * TICK

\* The valid payloads a producer puts on "transactions"; the id is the
\* message's arrival number and the producer stamps it with its clock.
StreamTransactions(id) ==
    [transaction_id : {id}, user_id : Users, amount : StreamAmounts,
     transaction_type : {"payment"}, merchant_id : {None},
     ip_address : {None}, timestamp : {Now}]

\* Whether one more failure may be injected in this run.
MayFail == faults < MaxFaults

Outcomes == IF MayFail THEN {TRUE, FALSE} ELSE {TRUE}

IsTransaction(m) == "transaction_id" \in DOMAIN m

\* A last-in-first-out delivery: the newest undelivered message first.
DeliverNewest(ch) == [msg |-> ch[Len(ch)], rest |-> SubSeq(ch, 1, Len(ch) - 1)]

\* async for message in pubsub.listen(): the subscription hands the loop the
\* undelivered messages one at a time, in arrival order.
Deliver(ch) == [msg |-> Head(ch), rest |-> Tail(ch)]

\* The result with the threshold itself not counted as fraud.
FraudResultStrict(txn, features, scored) ==
    [transaction_id |-> txn.transaction_id,
     user_id |-> txn.user_id,
     amount |-> txn.amount,
     transaction_type |-> txn.transaction_type,
     merchant_id |-> txn.merchant_id,
     timestamp |-> txn.timestamp,
     fraud_probability |-> scored.prob,
     risk_level |-> get_risk_level(scored.prob),
     is_fraud |-> scored.prob > fraud_threshold,
     features |-> features,
     model_used |-> model_type]

\* Lines 57-70 and 78-92: the score and the result dict built from it.
FraudResult(txn, features, scored) ==
    [transaction_id |-> txn.transaction_id,
     user_id |-> txn.user_id,
     amount |-> txn.amount,
     transaction_type |-> txn.transaction_type,
     merchant_id |-> txn.merchant_id,
     timestamp |-> txn.timestamp,
     fraud_probability |-> scored.prob,
     risk_level |-> get_risk_level(scored.prob),
     is_fraud |-> scored.prob >= fraud_threshold,
     features |-> features,
     model_used |-> model_type]

\* The explainer called for every event, fraud or not.
ExplainerInvokedAlways(result) == enable_ai_reasoning

\* Line 95: if settings.enable_ai_reasoning and is_fraud.
ExplainerInvoked(result) == enable_ai_reasoning /\ result.is_fraud

\* The replies the explainer's remote request can get: none is made outside
\* ollama mode.
RepliesFor(mode) == IF mode = "ollama" THEN RemoteReplies ELSE {NoCall}

\* Lines 94-109: the explanation keys are added when explain_fraud returns a
\* truthy map; an exception is printed and the result is left as it is.
WithExplanation(result, importance, remote) ==
    IF ExplainerInvoked(result)
    THEN LET e == explain_fraud(ai_reasoning_mode, result.risk_level, importance, remote)
         IN  IF e.outcome = "ok"
             THEN [ai_explanation |-> e.value.explanation,
                   risk_factors |-> e.value.risk_factors,
                   recommendations |-> e.value.recommendations] @@ result
             ELSE result
    ELSE result

\* A save whose failure reaches the outer handler: the event is abandoned.
AfterSavePropagating(ok) == IF ok THEN "store" ELSE "abandon"

\* Lines 111-134: the save runs in its own try/except, so whether it commits
\* or raises the loop goes on to store and publish the result.
AfterSave(ok) == "store"

\* The ring append with no eviction.
StoreRecentUnbounded(ring, result) == Append(ring, result)

\* The eviction taking the newest entry (pop() for pop(0)).
StoreRecentDropNewest(ring, result) ==
    LET appended == Append(ring, result)
    IN  IF Len(appended) > MAX_RECENT_RESULTS
        THEN SubSeq(appended, 1, Len(appended) - 1)
        ELSE appended

\* Lines 136-139: append, then pop(0) when the ring is over MAX_RECENT_RESULTS.
StoreRecent(ring, result) ==
    LET appended == Append(ring, result)
    IN  IF Len(appended) > MAX_RECENT_RESULTS THEN Tail(appended) ELSE appended

\* Lines 72-76 and 345-349: the stats update.
UpdateStats(st, prob, is_fraud) ==
    [total_transactions |-> st.total_transactions + 1,
     total_risk_score |-> st.total_risk_score + prob,
     fraud_detected |-> st.fraud_detected + (IF is_fraud THEN 1 ELSE 0)]

\* A producer publishes one message on "transactions".
Produce ==
    /\ pc # "stopped"
    /\ Events < MaxEvents
    /\ \E m \in StreamTransactions(Len(ingested) + 1) \cup {Malformed} :
          /\ channel' = Append(channel, m)
          /\ ingested' = Append(ingested, m)
    /\ UNCHANGED <<extractorVars, pc, cur, stats, recent_fraud_results, ring_log, db,
                   save_failed, publish_failed, explained, fraud_results, predictVars,
                   response, faults, auxVars>>

\* A parse error that is not caught inside the loop: it ends the task.
ReceiveMalformedFatal ==
    /\ pc = "listen"
    /\ channel # << >>
    /\ ~IsTransaction(Deliver(channel).msg)
    /\ channel' = Deliver(channel).rest
    /\ pc' = "stopped"
    /\ UNCHANGED <<extractorVars, ingested, cur, stats, recent_fraud_results,
                   ring_log, db, save_failed, publish_failed, explained, fraud_results,
                   predictVars, response, faults, auxVars>>

\* The loop takes a message that does not parse as a Transaction: json.loads
\* or Transaction(**txn_data) raises, the outer handler prints, the loop goes on.
ReceiveMalformed ==
    /\ pc = "listen"
    /\ channel # << >>
    /\ ~IsTransaction(Deliver(channel).msg)
    /\ channel' = Deliver(channel).rest
    /\ UNCHANGED <<extractorVars, ingested, pc, cur, stats, recent_fraud_results,
                   ring_log, db, save_failed, publish_failed, explained, fraud_results,
                   predictVars, response, faults, auxVars>>

\* The loop takes a transaction and runs lines 49-139 up to the await of
\* publish: features, score, stats, result, explanation, save, ring.  None of
\* it suspends (explain_fraud raises or returns before any await of its own in
\* demo mode; the save is a blocking call).  When predict raises, the outer
\* handler (lines 148-149) prints and the loop listens again: the histories
\* are updated by then, nothing else is.
Receive ==
    /\ pc = "listen"
    /\ channel # << >>
    /\ IsTransaction(Deliver(channel).msg)
    /\ \E ml \in LogisticOutputs, saved \in Outcomes, remote \in RepliesFor(ai_reasoning_mode) :
          LET txn == Deliver(channel).msg
              features == ComputeFeatures(txn, user_history, merchant_history, ip_history)
              scored == predict(features_to_array(features), ml, model_loaded)
          IN  /\ extract_features(txn)
              /\ channel' = Deliver(channel).rest
              /\ IF scored.outcome = "raised"
                 THEN /\ pc' = "listen"
                      /\ UNCHANGED <<cur, stats, db, save_failed, recent_fraud_results,
                                     ring_log, explained, faults>>
                 ELSE LET plain == FraudResult(txn, features, scored)
                          result == WithExplanation(plain, scored.importance, remote)
                      IN  /\ stats' = UpdateStats(stats, scored.prob, plain.is_fraud)
                          /\ explained' = IF ExplainerInvoked(plain)
                                          THEN explained \cup {txn.transaction_id}
                                          ELSE explained
                          /\ db' = IF saved THEN Append(db, result) ELSE db
                          /\ save_failed' = IF saved THEN save_failed
                                            ELSE save_failed \cup {txn.transaction_id}
                          /\ IF AfterSave(saved) = "store"
                             THEN /\ recent_fraud_results' =
                                         StoreRecent(recent_fraud_results, result)
                                  /\ ring_log' = Append(ring_log, txn.transaction_id)
                                  /\ pc' = "publish"
                             ELSE /\ UNCHANGED <<recent_fraud_results, ring_log>>
                                  /\ pc' = "listen"
                          /\ cur' = [txn |-> txn,
                                     result |-> result,
                                     history_used |-> user_txns_of(user_history, txn)]
                          /\ faults' = IF saved THEN faults ELSE faults + 1
    /\ UNCHANGED <<ingested, publish_failed, fraud_results, predictVars, response, auxVars>>

\* Lines 141-149: await redis_client.publish(...).  It delivers the message,
\* or raises and the outer handler prints; either way the loop listens again.
Publish ==
    /\ pc = "publish"
    /\ \E ok \in Outcomes :
          /\ faults' = IF ok THEN faults ELSE faults + 1
          /\ fraud_results' = IF ok
                              THEN Append(fraud_results,
                                          [src |-> "stream", payload |-> cur.result])
                              ELSE fraud_results
          /\ publish_failed' = IF ok THEN publish_failed
                               ELSE publish_failed \cup {cur.result.transaction_id}
    /\ pc' = "listen"
    /\ UNCHANGED <<extractorVars, channel, ingested, cur, stats, recent_fraud_results,
                   ring_log, db, save_failed, explained, predictVars, response, auxVars>>

\* What a cancellation makes of the publish the loop is suspended in: the
\* command either reached Redis before the CancelledError was raised in the
\* task (TRUE), or it did not (FALSE).
CancelledPublish == {TRUE, FALSE}

\* lifespan shutdown (lines 181-187): processing_task.cancel() raises
\* CancelledError at the await the loop is suspended in; the handler at lines
\* 150-153 unsubscribes and the task ends.  There is no wait for the event in
\* hand and no deadline.
Cancel ==
    /\ pc \in {"listen", "publish"}
    /\ pc' = "stopped"
    /\ IF pc = "publish"
       THEN \E sent \in CancelledPublish :
               fraud_results' = IF sent
                                THEN Append(fraud_results,
                                            [src |-> "stream", payload |-> cur.result])
                                ELSE fraud_results
       ELSE UNCHANGED fraud_results
    /\ UNCHANGED <<extractorVars, channel, ingested, cur, stats, recent_fraud_results,
                   ring_log, db, save_failed, publish_failed, explained,
                   predictVars, response, faults, auxVars>>

-----------------------------------------------------------------------------
(* main.py: POST /predict and GET /recent *)

PredictAmounts == {800}

\* The transactions a client posts to /predict; ids from 101 on keep them
\* apart from the stream's.
PredictTransactions(id) ==
    [transaction_id : {id}, user_id : Users, amount : PredictAmounts,
     transaction_type : {"payment"}, merchant_id : {None},
     ip_address : {None}, timestamp : {Now}]

\* fraud_score.model_dump_json(): the fields of models.FraudScore.
FraudScoreJson(result) ==
    [transaction_id |-> result.transaction_id,
     fraud_probability |-> result.fraud_probability,
     risk_level |-> result.risk_level,
     is_fraud |-> result.is_fraud,
     features |-> result.features,
     model_used |-> result.model_used,
     timestamp |-> "utcnow"]

\* Line 358: if fraud_prob >= 0.5, generate_explanation is scheduled.
EXPLAIN_FROM == 500

\* generate_explanation (lines 397-416), the background task of /predict:
\* the explanation is published on "fraud_explanations"; an exception of
\* explain_fraud or of the publish is printed.
generate_explanation(topic, result, importance, remote) ==
    LET e == explain_fraud(ai_reasoning_mode, result.risk_level, importance, remote)
    IN  IF e.outcome = "ok"
        THEN Append(topic, [transaction_id |-> result.transaction_id,
                            payload |-> e.value])
        ELSE topic

\* predict_fraud up to its await of publish (lines 325-349).  When predict
\* raises, the handler ends in HTTP 500 (lines 370-371) with the histories
\* already updated.
PredictStart ==
    /\ predict_pc = "idle"
    /\ pc # "stopped"
    /\ Events < MaxEvents
    /\ \E txn \in PredictTransactions(100 + predicts + 1), ml \in LogisticOutputs :
          LET features == ComputeFeatures(txn, user_history, merchant_history, ip_history)
              scored == predict(features_to_array(features), ml, model_loaded)
          IN  /\ extract_features(txn)
              /\ IF scored.outcome = "raised"
                 THEN /\ predict_pc' = "idle"
                      /\ UNCHANGED <<stats, predict_cur>>
                 ELSE LET result == FraudResult(txn, features, scored)
                      IN  /\ stats' = UpdateStats(stats, scored.prob, result.is_fraud)
                          /\ predict_cur' = [result |-> result,
                                             importance |-> scored.importance]
                          /\ predict_pc' = "publish"
    /\ predicts' = predicts + 1
    /\ UNCHANGED <<streamVars, fraud_results, response, faults, auxVars>>

\* Lines 351-371: the publish delivers, the background task is scheduled for
\* a probability of 0.5 or more and the score is returned, or the publish
\* raises and the request ends in HTTP 500.  The background task runs once
\* the response is sent; it is taken in the same step.
PredictPublish ==
    /\ predict_pc = "publish"
    /\ \E ok \in Outcomes, remote \in RepliesFor(ai_reasoning_mode) :
          /\ faults' = IF ok THEN faults ELSE faults + 1
          /\ fraud_results' = IF ok
                              THEN Append(fraud_results,
                                          [src |-> "predict",
                                           payload |-> FraudScoreJson(predict_cur.result)])
                              ELSE fraud_results
          /\ fraud_explanations' =
                 IF ok /\ predict_cur.result.fraud_probability >= EXPLAIN_FROM
                 THEN generate_explanation(fraud_explanations, predict_cur.result,
                                           predict_cur.importance, remote)
                 ELSE fraud_explanations
    /\ predict_pc' = "idle"
    /\ UNCHANGED <<extractorVars, streamVars, stats, predict_cur, predicts, response,
                   window_size, model_loaded, explain_out, score_out>>

\* A limit a client passes to GET /recent.
Limits == 0..(MAX_RECENT_RESULTS + 1)

\* Lines 312-319, the in-memory path of get_recent_transactions:
\* recent_fraud_results[-limit:] if len(recent_fraud_results) > limit else
\* recent_fraud_results.  Python's s[-0:] is all of s.
RecentFromMemory(ring, limit) ==
    IF Len(ring) > limit
    THEN (IF limit = 0 THEN ring ELSE LastN(ring, limit))
    ELSE ring

NoResponse == [none |-> TRUE]

GetRecent ==
    /\ \E limit \in Limits :
          response' = [transactions |-> RecentFromMemory(recent_fraud_results, limit),
                       total |-> Len(recent_fraud_results),
                       limit |-> limit]
    /\ UNCHANGED <<extractorVars, streamVars, predictVars, stats, fraud_results, faults,
                   auxVars>>

-----------------------------------------------------------------------------
(* The service: the subscribe loop, the HTTP handlers and the shutdown *)

NoLocals == [none |-> TRUE]

Start(injected, loaded, window) ==
    /\ window_size = window
    /\ user_history = [u \in Users |-> << >>]
    /\ merchant_history = [m \in Merchants |-> << >>]
    /\ ip_history = [i \in IPs |-> << >>]
    /\ calls = << >>
    /\ features_out = [none |-> TRUE]
    /\ channel = << >>
    /\ ingested = << >>
    /\ pc = "listen"
    /\ cur = NoLocals
    /\ stats = [total_transactions |-> 0, total_risk_score |-> 0, fraud_detected |-> 0]
    /\ recent_fraud_results = << >>
    /\ ring_log = << >>
    /\ db = << >>
    /\ save_failed = {}
    /\ publish_failed = {}
    /\ fraud_results = << >>
    /\ predict_pc = "idle"
    /\ predict_cur = NoLocals
    /\ predicts = 0
    /\ response = NoResponse
    /\ faults = injected
    /\ model_loaded = loaded
    /\ explained = {}
    /\ fraud_explanations = << >>
    /\ explain_out = NoLocals
    /\ score_out = NoLocals

\* The service starts with empty histories, an empty ring and no failure yet;
\* scikit-learn is installed and the logistic model is fitted.
Init == Start(0, TRUE, feature_window)

\* The same start in a run whose database and Redis never fail.
InitReliable == Start(MaxFaults, TRUE, feature_window)

\* The start on a host with or without scikit-learn: without it
\* _create_pretrained_model returns None (lines 20-24).
InitAnyHost == \E loaded \in BOOLEAN : Start(0, loaded, feature_window)

Next ==
    \/ Produce
    \/ ReceiveMalformed
    \/ Receive
    \/ Publish
    \/ Cancel

\* The subscribe loop and its shutdown.
Spec == Init /\ [][Next]_vars

NextService ==
    \/ Produce
    \/ ReceiveMalformed
    \/ Receive
    \/ Publish
    \/ PredictStart
    \/ PredictPublish

\* The subscribe loop on a host where scikit-learn may be missing.
SpecAnyHost == InitAnyHost /\ [][Next]_vars

\* The subscribe loop with POST /predict requests served in between.
SpecService == InitReliable /\ [][NextService]_vars

-----------------------------------------------------------------------------
(* The extractor on its own: any sequence of extract_features calls *)

Timestamps == {0, 4000}

Amounts == {60, 800}

\* The transactions a caller can pass; the id is the call's number.
Transactions(id) ==
    [transaction_id : {id}, user_id : Users, amount : Amounts,
     transaction_type : {"payment"}, merchant_id : Merchants \cup {None},
     ip_address : IPs \cup {None}, timestamp : Timestamps]

ExtractCall ==
    /\ Len(calls) < MaxCalls
    /\ \E txn \in Transactions(Len(calls) + 1) : extract_features(txn)
    /\ UNCHANGED <<streamVars, predictVars, stats, fraud_results, response, faults,
                   auxVars>>

\* The windows a FeatureExtractor is constructed with.
Windows == {feature_window, feature_window + 1}

\* FeatureExtractor(window_size) with empty histories.
InitExtractor == \E window \in Windows : Start(0, TRUE, window)

SpecExtractor == InitExtractor /\ [][ExtractCall]_vars

-----------------------------------------------------------------------------
(* The explainer on its own: any explain_fraud call *)

Modes == {"demo", "ollama", "huggingface"}

RiskLevels == {"low", "medium", "high", "critical"}

\* Importance maps a caller can pass: empty, numbers only, the mix of names
\* and numbers predict returns, names only.
ImportanceMaps ==
    {<< >>,
     [amount |-> Num(800), velocity |-> Num(5)],
     [model |-> Str("rule_based_hybrid"), amount |-> Num(800)],
     [model |-> Str("rule_based_hybrid")]}

ExplainCall ==
    /\ \E mode \in Modes, risk_level \in RiskLevels, importance \in ImportanceMaps,
          remote \in RemoteReplies :
          explain_out' = [mode |-> mode,
                          risk_level |-> risk_level,
                          importance |-> importance,
                          remote |-> remote,
                          returned |-> explain_fraud(mode, risk_level, importance, remote)]
    /\ UNCHANGED <<extractorVars, streamVars, predictVars, stats, fraud_results, response,
                   faults, window_size, model_loaded, fraud_explanations, score_out>>

SpecExplainer == Init /\ [][ExplainCall]_vars

-----------------------------------------------------------------------------
(* The scorer on its own: any feature vector scored as main.py lines 55-70 do *)

ScorerAmounts == {60, 95, 401, 500, 600, 701, 800}

ScorerAverages == {<<0, 1>>, <<50, 1>>, <<100, 1>>, <<200, 1>>, <<1000, 1>>}

ScorerVelocities == {0, 2, 5, 7}

\* What predict_proba can return for the vector.
ScorerOutputs == {0, 100, 299, 300, 350, 599, 600, 849, 850, 1000}

\* A feature map with the given amount, user average and hourly count, the
\* other features 0.
ScorerFeatures(amount, avg, txns_last_hour) ==
    [name \in {get_feature_names[i] : i \in 1..Len(get_feature_names)} |->
        CASE name = "amount" -> amount
          [] name = "user_avg_amount" -> avg
          [] name = "amount_vs_avg" -> <<amount * avg[2], avg[1]>>
          [] name = "txns_last_hour" -> txns_last_hour
          [] OTHER -> 0]

\* The transaction the vector is scored for.
ScorerTransaction(amount) ==
    [transaction_id |-> 0, user_id |-> "u1", amount |-> amount,
     transaction_type |-> "payment", merchant_id |-> None, ip_address |-> None,
     timestamp |-> 0]

\* One scoring per run: predict keeps nothing from one call to the next.
ScoreCall ==
    /\ score_out = NoLocals
    /\ \E amount \in ScorerAmounts, avg \in ScorerAverages,
          txns_last_hour \in ScorerVelocities, ml \in ScorerOutputs, loaded \in BOOLEAN :
          LET features == ScorerFeatures(amount, avg, txns_last_hour)
              scored == predict(features_to_array(features), ml, loaded)
          IN  score_out' = [amount |-> amount,
                            user_avg_amount |-> avg,
                            txns_last_hour |-> txns_last_hour,
                            ml |-> ml,
                            loaded |-> loaded,
                            scored |-> scored,
                            result |-> IF scored.outcome = "ok"
                                       THEN FraudResult(ScorerTransaction(amount),
                                                        features, scored)
                                       ELSE NoLocals]
    /\ UNCHANGED <<extractorVars, streamVars, predictVars, stats, fraud_results, response,
                   faults, window_size, model_loaded, fraud_explanations, explain_out>>

SpecScorer == Init /\ [][ScoreCall]_vars

-----------------------------------------------------------------------------
(* GET /recent against a ring the loop is filling *)

NextRecent ==
    \/ Produce
    \/ ReceiveMalformed
    \/ Receive
    \/ Publish
    \/ GetRecent

SpecRecent == Init /\ [][NextRecent]_vars

-----------------------------------------------------------------------------
(* Properties *)

Last(s) == s[Len(s)]

Reverse(s) == [i \in 1..Len(s) |-> s[Len(s) + 1 - i]]

Range(s) == {s[i] : i \in 1..Len(s)}

OfUser(s, u) == SelectSeq(s, LAMBDA t : t.user_id = u)

OfMerchant(s, m) == SelectSeq(s, LAMBDA t : t.merchant_id = m)

OfIp(s, a) == SelectSeq(s, LAMBDA t : t.ip_address = a)

\* The calls of extract_features made before its latest one.
PriorCalls == SubSeq(calls, 1, Len(calls) - 1)

\* The place of transaction id in the call order of extract_features.
CallOf(id) == CHOOSE i \in 1..Len(calls) : calls[i].transaction_id = id

\* The place of transaction id in the arrival order on "transactions".
ArrivalOf(id) ==
    CHOOSE i \in 1..Len(ingested) :
        IsTransaction(ingested[i]) /\ ingested[i].transaction_id = id

\* The transactions that arrived on "transactions" before place n.
ArrivedBefore(n) == SelectSeq(SubSeq(ingested, 1, n - 1), IsTransaction)

PublishedIds ==
    {fraud_results[i].payload.transaction_id : i \in 1..Len(fraud_results)}

PersistedIds == {db[i].transaction_id : i \in 1..Len(db)}

RingIds ==
    {recent_fraud_results[i].transaction_id : i \in 1..Len(recent_fraud_results)}

ExplanationKeys == {"ai_explanation", "risk_factors", "recommendations"}

\* C1: the features the latest extract_features(T) returned are computed from
\* the calls made before it (the empty-history defaults apart, which use T's
\* own amount): the user aggregates from the user's last window_size earlier
\* transactions, the merchant mean from the merchant's last window_size
\* earlier ones, the IP counts from all earlier ones of that IP; and T is then
\* the newest entry of its user's history.
C1_FeaturesBeforeSelf ==
    calls # << >> =>
        LET T == Last(calls)
            window == LastN(OfUser(PriorCalls, T.user_id), window_size)
            atMerchant == LastN(OfMerchant(PriorCalls, T.merchant_id), window_size)
            atIp == OfIp(PriorCalls, T.ip_address)
        IN  /\ features_out.user_avg_amount =
                  (IF window = << >> THEN <<T.amount, 1>>
                   ELSE <<SumAmounts(window), Len(window)>>)
            /\ features_out.txns_last_hour =
                  Cardinality({i \in 1..Len(window) :
                                  T.timestamp - window[i].timestamp < SECONDS_PER_HOUR})
            /\ features_out.txns_last_day =
                  Cardinality({i \in 1..Len(window) :
                                  T.timestamp - window[i].timestamp < SECONDS_PER_DAY})
            /\ features_out.merchant_avg_amount =
                  (IF T.merchant_id = None THEN <<0, 1>>
                   ELSE IF atMerchant = << >> THEN <<T.amount, 1>>
                   ELSE <<SumAmounts(atMerchant), Len(atMerchant)>>)
            /\ features_out.ip_txn_count =
                  (IF T.ip_address = None THEN 0 ELSE Len(atIp))
            /\ features_out.ip_unique_users =
                  (IF T.ip_address = None THEN 0
                   ELSE Cardinality({atIp[i].user_id : i \in 1..Len(atIp)}))
            /\ user_history[T.user_id] # << >>
            /\ Last(user_history[T.user_id]) = T

\* A call whose user, merchant and IP all have earlier transactions, one of
\* them within the hour and of another amount.
C1_Witness ==
    /\ Len(calls) >= 2
    /\ features_out.txns_last_hour >= 1
    /\ features_out.ip_txn_count >= 1
    /\ Last(calls).merchant_id # None
    /\ OfMerchant(PriorCalls, Last(calls).merchant_id) # << >>
    /\ features_out.user_avg_amount # <<Last(calls).amount, 1>>

\* C4: every per-user, per-merchant and per-IP history holds at most
\* window_size entries.
C4_AllHistoriesWithinWindow ==
    /\ \A u \in Users : Len(user_history[u]) <= window_size
    /\ \A m \in Merchants : Len(merchant_history[m]) <= window_size
    /\ \A a \in IPs : Len(ip_history[a]) <= window_size

\* C2: the stream results published on fraud_results for one user are in the
\* order in which their transactions arrived on "transactions".
C2_PerUserPublishOrder ==
    \A i, j \in 1..Len(fraud_results) :
        (/\ i < j
         /\ fraud_results[i].src = "stream"
         /\ fraud_results[j].src = "stream"
         /\ fraud_results[i].payload.user_id = fraud_results[j].payload.user_id)
        => ArrivalOf(fraud_results[i].payload.transaction_id)
               < ArrivalOf(fraud_results[j].payload.transaction_id)

\* Two results of one user are published, and one of the other user too.
C2_Witness ==
    \E i, j, k \in 1..Len(fraud_results) :
        /\ i < j
        /\ fraud_results[i].payload.user_id = fraud_results[j].payload.user_id
        /\ fraud_results[k].payload.user_id # fraud_results[i].payload.user_id

\* C3 as claimed: the user history a stream transaction T's features are
\* computed from is the last window_size transactions of T's user that
\* arrived on "transactions" before T.
C3_HistoryIsPriorIngested ==
    cur # NoLocals =>
        cur.history_used =
            LastN(OfUser(ArrivedBefore(ArrivalOf(cur.txn.transaction_id)),
                         cur.txn.user_id),
                  window_size)

\* C3 as amended: the user history a stream transaction T's features are
\* computed from is the last window_size transactions of T's user passed to
\* extract_features before T, by the loop or by POST /predict; T itself and
\* later transactions are not in it.
C3_HistoryIsPriorCalls ==
    cur # NoLocals =>
        LET at == CallOf(cur.txn.transaction_id)
        IN  /\ cur.history_used =
                  LastN(OfUser(SubSeq(calls, 1, at - 1), cur.txn.user_id), window_size)
            /\ \A i \in 1..Len(cur.history_used) :
                  /\ cur.history_used[i] # cur.txn
                  /\ CallOf(cur.history_used[i].transaction_id) < at

\* A stream transaction whose user has more than window_size earlier
\* transactions, and whose history holds one that came by POST /predict.
C3_Witness ==
    /\ cur # NoLocals
    /\ Len(OfUser(SubSeq(calls, 1, CallOf(cur.txn.transaction_id) - 1),
                  cur.txn.user_id)) > window_size
    /\ \E i \in 1..Len(cur.history_used) : cur.history_used[i].transaction_id > 100

\* C5: the ring never holds more than MAX_RECENT_RESULTS results, and it holds
\* the latest ones appended: the oldest is the one an append to a full ring
\* evicts.
C5_RingBounded ==
    /\ Len(recent_fraud_results) <= MAX_RECENT_RESULTS
    /\ [i \in 1..Len(recent_fraud_results) |-> recent_fraud_results[i].transaction_id]
           = LastN(ring_log, MAX_RECENT_RESULTS)

\* More results were appended than the ring holds.
C5_Witness ==
    /\ Len(ring_log) > MAX_RECENT_RESULTS
    /\ Len(recent_fraud_results) = MAX_RECENT_RESULTS

\* C6: whenever the ring is not empty, its newest entry is the event most
\* recently published on fraud_results.
C6_RingHeadIsLastPublished ==
    recent_fraud_results # << >> =>
        /\ fraud_results # << >>
        /\ Last(recent_fraud_results).transaction_id
               = Last(fraud_results).payload.transaction_id

\* C7: a read with a limit of at least 1 returns the min(limit, ring size)
\* most recently appended results, newest first.
C7_ReadNewestFirst ==
    [][(response' # response /\ response'.limit >= 1)
          => response'.transactions
                 = Reverse(LastN(recent_fraud_results,
                                 Min(response'.limit, Len(recent_fraud_results))))]_vars

\* C8: an event is never persisted, or in the ring, without having been
\* published; the event the loop is still handling is left out of account.
C8_NoPartialVisibility ==
    \A id \in PersistedIds \cup RingIds :
        \/ id \in PublishedIds
        \/ pc = "publish" /\ cur.result.transaction_id = id

\* C9: an event whose database save raised is not persisted, is appended to
\* the ring all the same, and goes on to the publish step: it is on
\* fraud_results unless the publish itself raised or the loop is still (or
\* was cancelled) at that await.
C9_SaveFailureSwallowed ==
    \A id \in save_failed :
        /\ id \notin PersistedIds
        /\ id \in Range(ring_log)
        /\ \/ id \in PublishedIds
           \/ id \in publish_failed
           \/ pc \in {"publish", "stopped"} /\ cur.result.transaction_id = id

\* An event whose save raised is published, and the loop has handled a later
\* message after it.
C9_Witness ==
    \E id \in save_failed :
        /\ id \in PublishedIds
        /\ \E later \in Range(ring_log) : later > id

\* C10: with enable_ai_reasoning on, every stream result published with
\* is_fraud true carries ai_explanation, risk_factors and recommendations.
C10_FraudEventsCarryExplanation ==
    enable_ai_reasoning =>
        \A i \in 1..Len(fraud_results) :
            (fraud_results[i].src = "stream" /\ fraud_results[i].payload.is_fraud)
            => ExplanationKeys \subseteq DOMAIN fraud_results[i].payload

\* The stream transactions the loop has taken off the channel.
TakenIds == {calls[i].transaction_id : i \in 1..Len(calls)}

ExplainedOnTopic ==
    {fraud_explanations[i].transaction_id : i \in 1..Len(fraud_explanations)}

\* The keys of the fraud_results payload.
ResultKeys ==
    {"transaction_id", "user_id", "amount", "transaction_type", "merchant_id",
     "timestamp", "fraud_probability", "risk_level", "is_fraud", "features",
     "model_used"}

\* C11: no result published on fraud_results with is_fraud false carries
\* ai_explanation, risk_factors or recommendations, and explain_fraud was not
\* called for it.
C11_ExplanationOnlyForFraud ==
    \A i \in 1..Len(fraud_results) :
        ~fraud_results[i].payload.is_fraud
        => /\ ExplanationKeys \cap DOMAIN fraud_results[i].payload = {}
           /\ fraud_results[i].payload.transaction_id \notin explained

\* A result that is not fraud and one that is are published, and the
\* explainer was called for the one that is.
C11_Witness ==
    \E i, j \in 1..Len(fraud_results) :
        /\ ~fraud_results[i].payload.is_fraud
        /\ fraud_results[j].payload.is_fraud
        /\ fraud_results[j].payload.transaction_id \in explained

\* C12: explain_fraud makes at most one remote request per call, and in
\* ollama mode a request that fails (another status than 200, a timeout, a
\* dropped connection, a body that does not decode) makes it return the
\* template explanation, with its narrative, risk factors and
\* recommendations, and not raise.
C12_RemoteFailureFallsBack ==
    explain_out # NoLocals =>
        LET r == explain_out.returned
        IN  /\ r.attempts <= 1
            /\ (explain_out.mode = "ollama" /\ r.attempts = 1 /\ explain_out.remote # "ok")
               => /\ r.outcome = "ok"
                  /\ {"explanation", "risk_factors", "recommendations"}
                         \subseteq DOMAIN r.value
                  /\ r.value.explanation = <<"narrative", explain_out.risk_level>>
                  /\ r.value.risk_factors = DOMAIN explain_out.importance

\* An ollama-mode call whose request timed out.
C12_Witness ==
    /\ explain_out # NoLocals
    /\ explain_out.mode = "ollama"
    /\ explain_out.remote = "timeout"
    /\ explain_out.returned.attempts = 1
    /\ explain_out.importance # << >>

\* C13: every transaction the loop took off the channel is enriched and
\* appended to the ring, and published unless the publish itself failed or
\* is still to come, also when the logistic model is not loaded.
C13_ScoringErrorNeverFailsEvent ==
    \A id \in TakenIds :
        /\ id \in Range(ring_log)
        /\ \/ id \in PublishedIds \cup publish_failed
           \/ pc \in {"publish", "stopped"} /\ cur.result.transaction_id = id

\* C14: an event whose publish failed once is published all the same by a
\* retry, unless the loop is still at its publish or was stopped.
C14_TransientPublishFailureRetried ==
    \A id \in publish_failed :
        \/ id \in PublishedIds
        \/ pc = "publish" /\ cur.result.transaction_id = id
        \/ pc = "stopped"

\* C15: the step that takes a malformed message off the channel leaves the
\* histories, the ring, the stats, the database and fraud_results as they
\* are, and the loop listens for the next message.
C15_MalformedDropped ==
    [][(/\ channel # << >>
        /\ ~IsTransaction(Head(channel))
        /\ Len(channel') < Len(channel))
       => /\ UNCHANGED <<user_history, merchant_history, ip_history, stats,
                         recent_fraud_results, ring_log, db, fraud_results>>
          /\ pc' = "listen"]_vars

\* A malformed message arrived, and a transaction that arrived after it is
\* published.
C15_Witness ==
    \E i, j \in 1..Len(ingested) :
        /\ i < j
        /\ ~IsTransaction(ingested[i])
        /\ IsTransaction(ingested[j])
        /\ ingested[j].transaction_id \in PublishedIds

\* C16: once the loop is stopped, the event it had in hand has been through
\* its publish step: it is on fraud_results, or its publish raised.
C16_InFlightEventDrained ==
    (pc = "stopped" /\ cur # NoLocals)
    => cur.result.transaction_id \in PublishedIds \cup publish_failed

\* C17: every message on fraud_results, from the loop or from POST /predict,
\* carries all the payload keys.
C17_ResultsCarryAllKeys ==
    \A i \in 1..Len(fraud_results) :
        ResultKeys \subseteq DOMAIN fraud_results[i].payload

\* C18: the feature map extract_features returns has exactly the 18 names of
\* get_feature_names, for every transaction.
C18_SameFeatureNames ==
    calls # << >> => DOMAIN features_out = Range(get_feature_names)

C20_FraudIffAtThreshold ==
    /\ \A i \in 1..Len(fraud_results) :
          fraud_results[i].payload.is_fraud
              <=> (fraud_results[i].payload.fraud_probability >= fraud_threshold)
    /\ \A i \in 1..Len(recent_fraud_results) :
          recent_fraud_results[i].is_fraud
              <=> (recent_fraud_results[i].fraud_probability >= fraud_threshold)
    /\ \A i \in 1..Len(db) :
          db[i].is_fraud <=> (db[i].fraud_probability >= fraud_threshold)

\* A stream result scored exactly at the threshold is published as fraud, one
\* below it as not fraud, and one of POST /predict is published too.
C20_Witness ==
    \E i, j, k \in 1..Len(fraud_results) :
        /\ fraud_results[i].src = "stream"
        /\ fraud_results[i].payload.fraud_probability = fraud_threshold
        /\ fraud_results[i].payload.is_fraud
        /\ fraud_results[j].payload.fraud_probability < fraud_threshold
        /\ ~fraud_results[j].payload.is_fraud
        /\ fraud_results[k].src = "predict"

\* A scoring made on its own that returned a probability.
Scored == score_out # NoLocals /\ score_out.scored.outcome = "ok"

\* The branch named by the importance map predict returned.
TraceOf(importance) ==
    IF importance.model = Str("pretrained_lr") THEN "logistic"
    ELSE IF importance.reason = Str("high_value_low_history") THEN "R1"
    ELSE IF importance.reason = Str("very_high_amount") THEN "R2"
    ELSE "R3"

\* The risk bands as stated: closed on the lower side.
Band(p) ==
    IF p < 300 THEN "low"
    ELSE IF p < 600 THEN "medium"
    ELSE IF p < 850 THEN "high"
    ELSE "critical"

\* The latest timestamp among the entries of a non-empty window.
LatestTimestamp(window) ==
    CHOOSE m \in {window[i].timestamp : i \in 1..Len(window)} :
        \A i \in 1..Len(window) : window[i].timestamp <= m

\* C21: the risk_level of a scored result is low below 0.30, medium from 0.30
\* to below 0.60, high from 0.60 to below 0.85 and critical from 0.85 on.
C21_RiskBands ==
    Scored => score_out.result.risk_level = Band(score_out.result.fraud_probability)

\* A result scored exactly at the lower boundary of the high band.
C21_Witness ==
    /\ Scored
    /\ score_out.result.fraud_probability = 600
    /\ score_out.result.risk_level = "high"

\* C22: a probability predict returns lies in [0, 1], whichever branch
\* produces it.
C22_ProbabilityInUnitInterval ==
    Scored => /\ score_out.scored.prob >= 0
              /\ score_out.scored.prob <= 1000

\* The logistic branch with the boost clamped at 1.
C22_Witness ==
    /\ Scored
    /\ TraceOf(score_out.scored.importance) = "logistic"
    /\ score_out.amount > 500
    /\ score_out.ml + 300 > 1000
    /\ score_out.scored.prob = 1000

\* C23: the branch that scores a vector is R1 exactly when user_avg_amount >
\* 0, amount > 0.9 x user_avg_amount and amount > 400; else R2 if amount >
\* 700; else R3 if txns_last_hour >= 5; else the logistic model.
C23_RulePriority ==
    Scored =>
        LET a == score_out.amount
            avg == score_out.user_avg_amount
            r1 == avg[1] > 0 /\ 10 * a * avg[2] > 9 * avg[1] /\ a > 400
        IN  TraceOf(score_out.scored.importance) =
                (IF r1 THEN "R1"
                 ELSE IF a > 700 THEN "R2"
                 ELSE IF score_out.txns_last_hour >= 5 THEN "R3"
                 ELSE "logistic")

\* The scenario of C24: user average $100, amount $800, no transaction in the
\* last hour, the model loaded.
VeryHighAmountScenario ==
    /\ Scored
    /\ score_out.user_avg_amount = <<100, 1>>
    /\ score_out.amount = 800
    /\ score_out.txns_last_hour = 0

\* C24 as claimed: the scenario is scored by the very_high_amount rule with
\* probability 0.85, band high, is_fraud true.
C24_VeryHighAmountByR2 ==
    VeryHighAmountScenario =>
        /\ TraceOf(score_out.scored.importance) = "R2"
        /\ score_out.result.fraud_probability = 850
        /\ score_out.result.risk_level = "high"
        /\ score_out.result.is_fraud

\* C24 as amended: the scenario is scored by the high_value_low_history rule
\* with probability 0.80, band high, is_fraud true.
C24_VeryHighAmountByR1 ==
    VeryHighAmountScenario =>
        /\ TraceOf(score_out.scored.importance) = "R1"
        /\ score_out.result.fraud_probability = 800
        /\ score_out.result.risk_level = "high"
        /\ score_out.result.is_fraud

\* The scenario has been scored.
C24_Witness == VeryHighAmountScenario /\ score_out.result.is_fraud

C27_TimeSinceLatestEntry ==
    calls # << >> =>
        LET T == Last(calls)
            window == LastN(OfUser(PriorCalls, T.user_id), window_size)
        IN  features_out.time_since_last_txn =
                (IF window = << >> THEN <<24, 1>>
                 ELSE <<T.timestamp - LatestTimestamp(window), 3600>>)

\* C28: for the latest call, 0 <= txns_last_hour <= txns_last_day <= the
\* number of entries in the user's window <= window_size.
C28_VelocityWithinWindow ==
    calls # << >> =>
        LET T == Last(calls)
            earlier == Len(OfUser(PriorCalls, T.user_id))
            entries == IF earlier < window_size THEN earlier ELSE window_size
        IN  /\ 0 <= features_out.txns_last_hour
            /\ features_out.txns_last_hour <= features_out.txns_last_day
            /\ features_out.txns_last_day <= entries
            /\ entries <= window_size

\* A call whose user has more earlier transactions than the window holds,
\* with every entry of the window within the day and not all within the hour.
C28_Witness ==
    /\ calls # << >>
    /\ Len(OfUser(PriorCalls, Last(calls).user_id)) > window_size
    /\ features_out.txns_last_day = window_size
    /\ features_out.txns_last_hour < features_out.txns_last_day

\* C29: the ring holds, in processing order and without duplicates, the last
\* min(k, MAX_RECENT_RESULTS) of the k results that reached the append; only
\* transactions the loop took and scored are in it.
C29_RingIsLastAppended ==
    LET k == Len(ring_log)
        n == Len(recent_fraud_results)
    IN  /\ n = (IF k < MAX_RECENT_RESULTS THEN k ELSE MAX_RECENT_RESULTS)
        /\ \A i \in 1..n : recent_fraud_results[i].transaction_id = ring_log[k - n + i]
        /\ \A i, j \in 1..n :
              i < j => recent_fraud_results[i].transaction_id
                          < recent_fraud_results[j].transaction_id
        /\ RingIds \subseteq TakenIds
        /\ ~model_loaded => recent_fraud_results = << >>

\* A malformed message was dropped and the two transactions that arrived
\* after it are in the ring, in their order.
C29_Witness ==
    /\ Len(ingested) >= 3
    /\ ~IsTransaction(ingested[1])
    /\ Len(recent_fraud_results) = 2
    /\ recent_fraud_results[1].transaction_id = ingested[2].transaction_id
    /\ recent_fraud_results[2].transaction_id = ingested[3].transaction_id

\* C30: a result of rule 1, 2 or 3 has probability at least 0.4 and is_fraud
\* true; a result with is_fraud false comes from the logistic branch.
C30_RuleResultsAreFraud ==
    Scored =>
        /\ TraceOf(score_out.scored.importance) \in {"R1", "R2", "R3"}
           => /\ score_out.scored.prob >= 400
              /\ score_out.result.is_fraud
        /\ ~score_out.result.is_fraud
           => TraceOf(score_out.scored.importance) = "logistic"

\* Rule 1 at the smallest amount it takes.
C30_Witness ==
    /\ Scored
    /\ TraceOf(score_out.scored.importance) = "R1"
    /\ score_out.amount = 401
    /\ score_out.txns_last_hour = 0

=============================================================================
